---- MODULE Spec2Model ----
(***************************************************************************)
(* Model of the distributed table scraper:                                 *)
(*   url_generator.js   - generateUrlList / chunkUrls / saveChunks / main  *)
(*   worker_script.js   - the chunk runner (main, scrapePage, saveToCSV)   *)
(*   consolidate_data.js (src/unnamed/part_001) - the consolidator         *)
(* Text is modelled as a sequence of one-character strings, so trimming,   *)
(* whitespace replacement and concatenation are computed, not assumed.     *)
(***************************************************************************)
EXTENDS Integers, Sequences, FiniteSets, TLC

VARIABLES
    \* ---- url_generator.js
    TOTAL_PAGES,    \* configuration constant, url_generator.js:6
    CHUNK_SIZE,     \* configuration constant, url_generator.js:7
    g_pc,           \* position of the generator's main()
    g_urls,         \* const urls   (main / generateUrlList)
    g_chunks,       \* const chunks (chunkUrls)
    g_i,            \* loop variable i of chunkUrls
    chunkDir,       \* chunks/ : file name -> content (sequence of URLs)
    manifest        \* chunks/manifest.json, or NoFile

gvars == <<TOTAL_PAGES, CHUNK_SIZE, g_pc, g_urls, g_chunks, g_i, chunkDir, manifest>>

VARIABLES
    \* ---- worker_script.js (one chunk-runner process)
    w_argv,         \* process.argv[2], or Undefined
    w_env,          \* process.env.SESSION_DATA, or Undefined
    w_pc,           \* position of the worker's main()
    w_cookies,      \* const cookies
    w_urls,         \* const urls
    w_browser,      \* "none", "open" or "closed"
    w_cookiesSet,   \* the cookies handed to page.setCookie, one entry per call
    w_i,            \* loop variable i of main (0-based)
    w_allData,      \* let allData
    w_successCount, \* let successCount
    w_failCount,    \* let failCount
    w_exit,         \* process exit status, or Undefined while running
    w_fetched,      \* the URLs scrapePage was called with, in order
    w_last,         \* the latest scrapePage call: what it saw, did and returned
    w_nullReturns,  \* how many scrapePage calls returned null
    w_rowReturns,   \* how many scrapePage calls returned an array of rows
    w_delays,       \* the inter-request delays taken, in order
    w_written,      \* the name of the file this run wrote, or NoFile
    dataDir         \* data/ : file name -> CSV records

wvars == <<w_argv, w_env, w_pc, w_cookies, w_urls, w_browser, w_cookiesSet, w_i,
           w_allData, w_successCount, w_failCount, w_exit, w_fetched, w_last,
           w_nullReturns, w_rowReturns, w_delays, w_written>>

VARIABLES
    \* ---- consolidate_data.js (src/unnamed/part_001)
    c_pc,           \* position of the consolidator's main()
    c_files,        \* const files: the paths getDataFiles resolved, in order
    c_k,            \* how many of them the for...of loop has read
    c_allData,      \* let allData
    c_report,       \* the three counts logged at the end, or Undefined
    c_prev,         \* what the latest completed earlier invocation read and wrote
    masterFile      \* master_data.csv: NoFile or [records |-> ...]

cvars == <<c_pc, c_files, c_k, c_allData, c_report, c_prev, masterFile>>

vars == <<gvars, wvars, dataDir, cvars>>

\* ------------------------------------------------------------------ bounds
MaxPages == 5
MaxQuota == 3
\* URLs in the chunk a worker is given
MaxUrls == 2
\* partial result files in data/ when the consolidator runs
MaxFiles == 2
\* iterations of the chunkUrls loop after which the process is out of memory;
\* always more than any valid configuration needs
MaxChunks == MaxPages + 2

\* ------------------------------------------------------------ text helpers
\* JavaScript's null and undefined, a thrown exception, an absent file
Null == [is |-> "null"]
Undefined == [is |-> "undefined"]
Thrown == [is |-> "thrown"]
NoFile == [is |-> "no file"]

Min(a, b) == IF a < b THEN a ELSE b
Max(a, b) == IF a > b THEN a ELSE b

RECURSIVE SumLen(_)
SumLen(ss) == IF ss = <<>> THEN 0 ELSE Len(Head(ss)) + SumLen(Tail(ss))

RECURSIVE Flatten(_)
Flatten(ss) == IF ss = <<>> THEN <<>> ELSE Head(ss) \o Flatten(Tail(ss))

\* Array.prototype.slice(start, end) with JavaScript's clamping of negative
\* and out-of-range indices; start and end are 0-based, end exclusive.
SliceIndex(len, k) == IF k < 0 THEN Max(len + k, 0) ELSE Min(k, len)
Slice(arr, start, end) ==
    LET from == SliceIndex(Len(arr), start)
        to   == SliceIndex(Len(arr), end)
    IN  IF from >= to THEN <<>> ELSE SubSeq(arr, from + 1, to)

\* Number.prototype.toString() for the small non-negative numbers of the model
Digit(d) == <<"0", "1", "2", "3", "4", "5", "6", "7", "8", "9">>[d + 1]
RECURSIVE NumToString(_)
NumToString(n) == IF n < 10 THEN <<Digit(n)>> ELSE NumToString(n \div 10) \o <<Digit(n % 10)>>

\* String.prototype.padStart(width, "0")
RECURSIVE PadStart(_, _)
PadStart(s, width) == IF Len(s) >= width THEN s ELSE PadStart(<<"0">> \o s, width)

\* String.prototype.trim(); the model's whitespace characters
IsWs(c) == c \in {" ", "\n"}
RECURSIVE TrimStart(_)
TrimStart(s) == IF s # <<>> /\ IsWs(Head(s)) THEN TrimStart(Tail(s)) ELSE s
RECURSIVE TrimEnd(_)
TrimEnd(s) == IF s # <<>> /\ IsWs(s[Len(s)]) THEN TrimEnd(SubSeq(s, 1, Len(s) - 1)) ELSE s
Trim(s) == TrimEnd(TrimStart(s))

ReplaceWsEach(s) == [k \in 1..Len(s) |-> IF IsWs(s[k]) THEN "-" ELSE s[k]]

\* String.prototype.replace(/\s+/g, "-"): every run of whitespace becomes one hyphen
RECURSIVE ReplaceWs(_)
ReplaceWs(s) ==
    IF s = <<>> THEN <<>>
    ELSE IF IsWs(Head(s)) THEN <<"-">> \o ReplaceWs(TrimStart(s))
    ELSE <<Head(s)>> \o ReplaceWs(Tail(s))

\* a || b on strings: the empty string is falsy
OrElse(a, b) == IF a # <<>> THEN a ELSE b

\* ------------------------------------------------------- url_generator.js
\* BASE_URL.replace('{page}', page): one URL per page number
Url(page) == [base |-> "browse/sites", page |-> page]

\* generateUrlList(): pages 1..TOTAL_PAGES in order; the loop body never runs
\* when TOTAL_PAGES < 1
generateUrlList(totalPages) ==
    IF totalPages < 1 THEN <<>> ELSE [p \in 1..totalPages |-> Url(p)]

ChunkSliceShort(urls, i, chunkSize) == Slice(urls, i, i + chunkSize - 1)
\* the body of the chunkUrls loop: urls.slice(i, i + chunkSize)
ChunkSlice(urls, i, chunkSize) == Slice(urls, i, i + chunkSize)

\* `chunk_${chunkNum.toString().padStart(4, '0')}.txt`
ChunkFileName(chunkNum) == [prefix |-> "chunk_", id |-> PadStart(NumToString(chunkNum), 4), ext |-> ".txt"]

\* a chunk file left over from an earlier generation (9: any earlier chunk number)
StaleChunkFile == ChunkFileName(9)

\* main(): const urls = generateUrlList();
GenerateUrlList ==
    /\ g_pc = "start"
    /\ g_urls' = generateUrlList(TOTAL_PAGES)
    /\ g_chunks' = <<>>
    /\ g_i' = 0
    /\ g_pc' = "chunking"
    /\ UNCHANGED <<TOTAL_PAGES, CHUNK_SIZE, chunkDir, manifest>>
    /\ UNCHANGED <<wvars, dataDir, cvars>>

\* chunkUrls: one iteration of  for (i = 0; i < urls.length; i += chunkSize)
ChunkStep ==
    /\ g_pc = "chunking"
    /\ g_i < Len(g_urls)
    /\ Len(g_chunks) < MaxChunks
    /\ g_chunks' = Append(g_chunks, ChunkSlice(g_urls, g_i, CHUNK_SIZE))
    /\ g_i' = g_i + CHUNK_SIZE
    /\ UNCHANGED <<TOTAL_PAGES, CHUNK_SIZE, g_pc, g_urls, chunkDir, manifest>>
    /\ UNCHANGED <<wvars, dataDir, cvars>>

\* chunkUrls: the loop never ends when chunkSize < 1 (i does not advance past
\* urls.length); the array grows until the process runs out of memory
ChunkExhaust ==
    /\ g_pc = "chunking"
    /\ g_i < Len(g_urls)
    /\ Len(g_chunks) >= MaxChunks
    /\ g_pc' = "out_of_memory"
    /\ UNCHANGED <<TOTAL_PAGES, CHUNK_SIZE, g_urls, g_chunks, g_i, chunkDir, manifest>>
    /\ UNCHANGED <<wvars, dataDir, cvars>>

\* chunkUrls: loop exit, return chunks
ChunkReturn ==
    /\ g_pc = "chunking"
    /\ g_i >= Len(g_urls)
    /\ g_pc' = "chunked"
    /\ UNCHANGED <<TOTAL_PAGES, CHUNK_SIZE, g_urls, g_chunks, g_i, chunkDir, manifest>>
    /\ UNCHANGED <<wvars, dataDir, cvars>>

\* saveChunks: the files written by chunks.forEach (chunkNum = index + 1)
WrittenChunkFiles(chunks) ==
    [name \in {ChunkFileName(k) : k \in 1..Len(chunks)} |->
        LET k == CHOOSE j \in 1..Len(chunks) : ChunkFileName(j) = name IN chunks[k]]

\* saveChunks(chunks): clear the chunk_*.txt files, write the new ones and the
\* manifest; then main logs success
SaveChunks ==
    /\ g_pc = "chunked"
    /\ chunkDir' = WrittenChunkFiles(g_chunks)
    /\ manifest' = [totalPages |-> TOTAL_PAGES, chunkSize |-> CHUNK_SIZE,
                    totalChunks |-> Len(g_chunks)]
    /\ g_pc' = "done"
    /\ UNCHANGED <<TOTAL_PAGES, CHUNK_SIZE, g_urls, g_chunks, g_i>>
    /\ UNCHANGED <<wvars, dataDir, cvars>>

\* saveChunks: a file-system error (thrown by unlinkSync / writeFileSync) after
\* the old files were cleared and the first n new ones written; main's catch
\* logs it and the process ends normally
SaveChunksError ==
    /\ g_pc = "chunked"
    /\ \/ chunkDir' = chunkDir
       \/ \E n \in 0..Len(g_chunks) :
             chunkDir' = WrittenChunkFiles(SubSeq(g_chunks, 1, n))
    /\ g_pc' = "caught"
    /\ UNCHANGED <<TOTAL_PAGES, CHUNK_SIZE, g_urls, g_chunks, g_i, manifest>>
    /\ UNCHANGED <<wvars, dataDir, cvars>>

\* ------------------------------------------------------- worker_script.js
\* The page driver's answer to one navigation, as scrapePage observes it:
\*   throwsAt : the driver call that throws ("none" when none does);
\*   title    : the document title, as a sequence of words;
\*   redirect : Null, or the URL the navigation resolved to;
\*   table    : Null when #sites_tbl never appears, else [rows |-> the <tr> rows
\*              after the header], each a sequence of cells [text, link], link
\*              being Null or [text, href].
TitleIncludes(title, marker) == \E k \in 1..Len(title) : title[k] = marker
UrlIncludes(url, word) == url.base = word
ResolvedUrl(r, url) == IF r.redirect = Null THEN url ELSE r.redirect

\* worker_script.js:194-200
IsChallenge(title, pageUrl) ==
    \/ TitleIncludes(title, "Verification")
    \/ TitleIncludes(title, "CAPTCHA")
    \/ UrlIncludes(pageUrl, "verify")
    \/ TitleIncludes(title, "Bot")
    \/ TitleIncludes(title, "Security Check")

\* worker_script.js:208-212
IsLogin(title, pageUrl) ==
    \/ UrlIncludes(pageUrl, "login")
    \/ TitleIncludes(title, "Login")
    \/ TitleIncludes(title, "Sign In")

\* cells[k]?.textContent?.trim() || ""   (k is 1-based here)
CellText(cells, k) == IF k <= Len(cells) THEN Trim(cells[k].text) ELSE <<>>
\* cells[k]?.querySelector("a")
CellLink(cells, k) == IF k <= Len(cells) THEN cells[k].link ELSE Null
LinkText(link) == IF link = Null THEN <<>> ELSE Trim(link.text)
LinkHref(link) == IF link = Null THEN <<>> ELSE link.href

\* the object built for one <tr> by the map callback; index is 0-based
ExtractRow(cells, index, href) ==
    LET rank == OrElse(CellText(cells, 1), <<"r", "o", "w", "-">> \o NumToString(index + 1))
        domainLink == CellLink(cells, 2)
        ipLink == CellLink(cells, 3)
        ownerLink == CellLink(cells, 5)
    IN  [rank |-> rank,
         domain |-> OrElse(CellText(cells, 2), LinkText(domainLink)),
         domainUrl |-> LinkHref(domainLink),
         ipAddress |-> OrElse(CellText(cells, 3), LinkText(ipLink)),
         ipAddressUrl |-> LinkHref(ipLink),
         location |-> CellText(cells, 4),
         owner |-> OrElse(CellText(cells, 5), LinkText(ownerLink)),
         ownerUrl |-> LinkHref(ownerLink),
         lastUpdate |-> CellText(cells, 6),
         sourceUrl |-> href,
         scrapedAt |-> "scrape-time",
         uniqueId |-> ReplaceWs(rank \o <<"-">> \o CellText(cells, 2))]

RowKeptIfBoth(row) == row.domain # <<>> /\ row.ipAddress # <<>>
\* .filter((row) => row.domain || row.ipAddress)
RowKept(row) == row.domain # <<>> \/ row.ipAddress # <<>>

\* the page.evaluate callback: map every data row, then filter
ExtractTable(rows, href) ==
    SelectSeq([k \in 1..Len(rows) |-> ExtractRow(rows[k], k - 1, href)], RowKept)

\* the driver calls scrapePage makes, in order, up to the one that ends it
ScrapeSteps(r, url) ==
    LET pageUrl == ResolvedUrl(r, url) IN
    IF r.throwsAt = "goto" THEN <<"goto">>
    ELSE IF r.throwsAt = "mouse" THEN <<"goto", "mouse">>
    ELSE IF IsChallenge(r.title, pageUrl) \/ IsLogin(r.title, pageUrl)
         THEN <<"goto", "mouse", "scroll", "title", "url">>
    ELSE IF r.table = Null
         THEN <<"goto", "mouse", "scroll", "title", "url", "waitForSelector">>
    ELSE <<"goto", "mouse", "scroll", "title", "url", "waitForSelector", "evaluate">>

\* the body of scrapePage's try block: Thrown, Null or [rows |-> tableData]
ScrapeBody(r, url) ==
    LET pageUrl == ResolvedUrl(r, url) IN
    IF r.throwsAt \in {"goto", "mouse"} THEN Thrown
    ELSE IF IsChallenge(r.title, pageUrl) THEN Null
    ELSE IF IsLogin(r.title, pageUrl) THEN Null
    ELSE IF r.table = Null THEN Null
    ELSE IF r.throwsAt = "evaluate" THEN Thrown
    ELSE [rows |-> ExtractTable(r.table.rows, pageUrl)]

ScrapeMessageLoginFirst(r, url) ==
    LET pageUrl == ResolvedUrl(r, url) IN
    IF r.throwsAt \in {"goto", "mouse"} THEN "Error scraping"
    ELSE IF IsLogin(r.title, pageUrl) THEN "Session expired or not logged in"
    ELSE IF IsChallenge(r.title, pageUrl) THEN "Human verification required"
    ELSE "other"

\* what scrapePage writes to the console before it returns
ScrapeMessage(r, url) ==
    LET pageUrl == ResolvedUrl(r, url) IN
    IF r.throwsAt \in {"goto", "mouse"} THEN "Error scraping"
    ELSE IF IsChallenge(r.title, pageUrl) THEN "Human verification required"
    ELSE IF IsLogin(r.title, pageUrl) THEN "Session expired or not logged in"
    ELSE IF r.table = Null THEN "Table #sites_tbl not found"
    ELSE IF r.throwsAt = "evaluate" THEN "Error scraping"
    ELSE "Extracted rows"

ScrapeRethrow(outcome) == outcome
\* scrapePage's catch (error) { ...; return null; }
ScrapeCatch(outcome) == IF outcome = Thrown THEN Null ELSE outcome

scrapePage(r, url) == ScrapeCatch(ScrapeBody(r, url))

\* saveToCSV's header: the column titles the row fields are written under
ToCsvRecord(row) ==
    [Rank |-> row.rank, Domain |-> row.domain, Domain_URL |-> row.domainUrl,
     IP_Address |-> row.ipAddress, IP_Address_URL |-> row.ipAddressUrl,
     Location |-> row.location, Owner |-> row.owner, Owner_URL |-> row.ownerUrl,
     Last_Update |-> row.lastUpdate, Source_URL |-> row.sourceUrl,
     Scraped_At |-> row.scrapedAt, Unique_ID |-> row.uniqueId]

DataFileNameNoChunk(chunkNumber, stamp) ==
    [prefix |-> "data_chunk_", chunk |-> <<>>, stamp |-> stamp]

\* `data_chunk_${chunkNumber}_${timestamp}.csv`; the timestamp is
\* toISOString() with ":" and "." replaced: seconds part, then milliseconds
DataFileName(chunkNumber, stamp) == [prefix |-> "data_chunk_", chunk |-> chunkNumber, stamp |-> stamp]

\* `chunk_${chunkNumber}.txt`: the argument is used as it was typed
ChunkFilePath(chunkNumber) == [prefix |-> "chunk_", id |-> chunkNumber, ext |-> ".txt"]

\* ---- the inputs of the model: table markup, driver answers, session values
Cell(text, link) == [text |-> text, link |-> link]
Link(text, href) == [text |-> text, href |-> href]

RowFull ==
    <<Cell(<<"5">>, Null), Cell(<<"a">>, Link(<<"a">>, <<"/", "a">>)),
      Cell(<<"9">>, Link(<<"9">>, <<"/", "9">>)), Cell(<<"x">>, Null),
      Cell(<<"o">>, Link(<<"o">>, <<"/", "o">>)), Cell(<<"d">>, Null)>>
RowSpaced ==
    <<Cell(<<"5">>, Null), Cell(<<" ", "a", " ", "b", "\n">>, Null), Cell(<<"9">>, Null),
      Cell(<<"x">>, Null), Cell(<<"o", "l", "d">>, Null), Cell(<<"d">>, Null)>>
RowHyphen ==
    <<Cell(<<"5">>, Null), Cell(<<"a", "-", "b">>, Null), Cell(<<"9">>, Null),
      Cell(<<"x">>, Null), Cell(<<"n", "e", "w">>, Null), Cell(<<"d">>, Null)>>
RowIpOnly ==
    <<Cell(<<"7">>, Null), Cell(<<" ">>, Link(<<" ">>, <<>>)), Cell(<<" ", "9">>, Null)>>
RowBlank ==
    <<Cell(<<"8">>, Null), Cell(<<>>, Null), Cell(<<"\n">>, Null), Cell(<<"x">>, Null)>>
RowNoCells == <<>>
RowDomainOnly == <<Cell(<<>>, Null), Cell(<<"b">>, Null)>>
\* a domain cell whose text holds a run of two whitespace characters
RowRuns ==
    <<Cell(<<"1", " ", "2">>, Null), Cell(<<" ", "a", " ", "\n", "b">>, Null), Cell(<<"9">>, Null)>>

Tables ==
    { <<>>, <<RowFull>>, <<RowIpOnly, RowBlank, RowNoCells>>, <<RowSpaced, RowHyphen>>,
      <<RowBlank, RowDomainOnly, RowRuns>> }

Table(rows) == [rows |-> rows]
Response(throwsAt, title, redirect, table) ==
    [throwsAt |-> throwsAt, title |-> title, redirect |-> redirect, table |-> table]

DataTitle == <<"Sites", "on", "IP">>
VerifyUrl == [base |-> "verify", page |-> 0]
LoginUrl == [base |-> "login", page |-> 0]

PageResponses ==
    { Response("goto", <<>>, Null, Null),
      Response("mouse", DataTitle, Null, Table(<<RowFull>>)),
      Response("none", <<"Human", "Verification">>, Null, Table(<<RowFull>>)),
      Response("none", <<"CAPTCHA">>, Null, Null),
      Response("none", DataTitle, VerifyUrl, Null),
      Response("none", <<"Bot", "check">>, Null, Null),
      Response("none", <<"Security Check">>, Null, Null),
      Response("none", <<"CAPTCHA", "Login">>, LoginUrl, Null),
      Response("none", DataTitle, LoginUrl, Null),
      Response("none", <<"Login">>, Null, Table(<<RowFull>>)),
      Response("none", <<"Sign In">>, Null, Null),
      Response("none", DataTitle, Null, Null),
      Response("evaluate", DataTitle, Null, Table(<<RowFull>>)) }
    \cup { Response("none", DataTitle, Null, Table(t)) : t \in Tables }

\* JSON.parse results, by type; items is the array's content
Json(type, items) == [type |-> type, items |-> items]
Cookie(name) == [name |-> name, value |-> "v", domain |-> "myip.ms"]
Env(text) == [text |-> text]
SessionInputs ==
    { Undefined, Env(""), Env("not-json"), Env("json-null"), Env("json-object"),
      Env("json-empty-array"), Env("json-cookies") }

\* Buffer.from(..., "base64").toString("utf-8") followed by JSON.parse
JsonParse(text) ==
    CASE text = "json-null" -> Json("null", <<>>)
      [] text = "json-object" -> Json("object", <<>>)
      [] text = "json-empty-array" -> Json("array", <<>>)
      [] text = "json-cookies" -> Json("array", <<Cookie("sid"), Cookie("tok")>>)
      [] OTHER -> Thrown

\* loadCookiesFromEnv(): Thrown, or the parsed value
loadCookiesFromEnv(env) ==
    IF env = Undefined \/ env = Env("") THEN Thrown ELSE JsonParse(env.text)

\* main's log line reads cookies.length: a TypeError when cookies is null
LengthThrows(value) == value.type = "null"

\* a line of a chunk file; a blank line has nothing left after trim()
BlankLine == [base |-> "", page |-> 0]
loadUrlsFromChunkAllowEmpty(dir, chunkNumber) ==
    IF ChunkFilePath(chunkNumber) \notin DOMAIN dir THEN Thrown
    ELSE [urls |-> SelectSeq(dir[ChunkFilePath(chunkNumber)], LAMBDA l : l # BlankLine)]

\* loadUrlsFromChunk(chunkNumber): Thrown, or [urls |-> the non-blank lines]
loadUrlsFromChunk(dir, chunkNumber) ==
    IF ChunkFilePath(chunkNumber) \notin DOMAIN dir THEN Thrown
    ELSE LET urls == SelectSeq(dir[ChunkFilePath(chunkNumber)], LAMBDA l : l # BlankLine)
         IN  IF Len(urls) = 0 THEN Thrown ELSE [urls |-> urls]

HasCookiesAnyArray(cookies) == cookies.type = "array"

\* setupBrowser: if (cookies && cookies.length > 0)
HasCookies(cookies) == cookies.type = "array" /\ Len(cookies.items) > 0

\* getRandomDelay() for Math.random() = u / 5001
getRandomDelay(u) == ((u * (8000 - 3000 + 1)) \div 5001) + 3000
RandomDraws == {0, 5000}

\* the moments a run can end at: [seconds part, milliseconds part] of the ISO time
Stamps == { [sec |-> 1, ms |-> 100], [sec |-> 1, ms |-> 900], [sec |-> 2, ms |-> 100] }

ShouldSaveAlways(allData) == Len(allData) >= 0
\* main: if (allData.length > 0) before saving
ShouldSave(allData) == Len(allData) > 0

ExitCode(n) == [code |-> n]
ExitStatusByFailures(pc, closed) == IF w_failCount > 0 THEN 1 ELSE 0
\* the status main ends with once the browser is set up: 0 when the try block
\* and browser.close() in its finally both complete, else the catch's exit(1)
ExitStatus(pc, closed) == IF pc = "closing" /\ closed THEN 0 ELSE 1
\* process.argv[2] when given
Argv(text) == [text |-> text]
WriteFile(dir, name, content) ==
    [n \in DOMAIN dir \cup {name} |-> IF n = name THEN content ELSE dir[n]]

\* main(): the command-line check, worker_script.js:324-331
CheckArgs ==
    /\ w_pc = "start"
    /\ IF w_argv = Undefined
          THEN w_pc' = "exited" /\ w_exit' = ExitCode(1)
          ELSE w_pc' = "loading" /\ w_exit' = w_exit
    /\ UNCHANGED <<w_argv, w_env, w_cookies, w_urls, w_browser, w_cookiesSet, w_i,
                   w_allData, w_successCount, w_failCount, w_fetched, w_last,
                   w_nullReturns, w_rowReturns, w_delays, w_written>>
    /\ UNCHANGED <<gvars, dataDir, cvars>>

\* main(): load cookies and URLs, worker_script.js:336-342; any throw lands in
\* the outer catch, which exits with status 1
LoadConfiguration ==
    /\ w_pc = "loading"
    /\ LET cookies == loadCookiesFromEnv(w_env)
           urls == loadUrlsFromChunk(chunkDir, w_argv.text)
       IN  IF cookies = Thrown \/ urls = Thrown \/ LengthThrows(cookies)
              THEN /\ w_pc' = "exited"
                   /\ w_exit' = ExitCode(1)
                   /\ UNCHANGED <<w_cookies, w_urls>>
              ELSE /\ w_pc' = "setup"
                   /\ w_cookies' = cookies
                   /\ w_urls' = urls.urls
                   /\ w_exit' = w_exit
    /\ UNCHANGED <<w_argv, w_env, w_browser, w_cookiesSet, w_i, w_allData,
                   w_successCount, w_failCount, w_fetched, w_last,
                   w_nullReturns, w_rowReturns, w_delays, w_written>>
    /\ UNCHANGED <<gvars, dataDir, cvars>>

\* setupBrowser(cookies) and the loop's initialisation; a throw after launch
\* leaves main before its inner try, so the outer catch exits with status 1
SetupBrowser ==
    /\ w_pc = "setup"
    /\ \E failure \in {"none", "launch", "page", "setCookie"} :
          /\ failure = "setCookie" => HasCookies(w_cookies)
          /\ w_browser' = IF failure = "launch" THEN "none" ELSE "open"
          /\ w_cookiesSet' = IF failure \in {"none", "setCookie"} /\ HasCookies(w_cookies)
                                THEN <<w_cookies.items>> ELSE <<>>
          /\ IF failure = "none"
                THEN w_pc' = "loop" /\ w_exit' = w_exit
                ELSE w_pc' = "exited" /\ w_exit' = ExitCode(1)
    /\ w_i' = 0
    /\ w_allData' = <<>>
    /\ w_successCount' = 0
    /\ w_failCount' = 0
    /\ UNCHANGED <<w_argv, w_env, w_cookies, w_urls, w_fetched, w_last,
                   w_nullReturns, w_rowReturns, w_delays, w_written>>
    /\ UNCHANGED <<gvars, dataDir, cvars>>

PauseDueAlways(i, n) == i < n
\* main: if (i < urls.length - 1) before the delay
PauseDue(i, n) == i < n - 1

NextIndexRetry(i, data) == IF data = Null THEN i ELSE i + 1
\* the for loop's i++: the next URL, whatever the fetch returned
NextIndex(i, data) == i + 1

IsSuccessAnyRows(data) == data # Null

\* main: if (data && data.length > 0)
IsSuccess(data) == data # Null /\ Len(data.rows) > 0

\* one iteration of main's for loop: scrapePage, the counters, the delay
ScrapeNext ==
    /\ w_pc = "loop"
    /\ w_i < Len(w_urls)
    /\ \E r \in PageResponses :
          LET url == w_urls[w_i + 1]
              data == scrapePage(r, url)
          IN  /\ w_fetched' = Append(w_fetched, url)
              /\ w_last' = [url |-> url, response |-> r, steps |-> ScrapeSteps(r, url),
                            message |-> ScrapeMessage(r, url), data |-> data]
              /\ w_nullReturns' = w_nullReturns + (IF data = Null THEN 1 ELSE 0)
              /\ w_rowReturns' = w_rowReturns + (IF data \notin {Null, Thrown} THEN 1 ELSE 0)
              /\ IF data = Thrown
                    THEN /\ w_pc' = "closing_error"
                         /\ UNCHANGED <<w_i, w_allData, w_successCount, w_failCount, w_delays>>
                    ELSE /\ w_pc' = w_pc
                         /\ w_i' = NextIndex(w_i, data)
                         /\ IF IsSuccess(data)
                               THEN /\ w_allData' = w_allData \o data.rows
                                    /\ w_successCount' = w_successCount + 1
                                    /\ w_failCount' = w_failCount
                               ELSE /\ w_failCount' = w_failCount + 1
                                    /\ UNCHANGED <<w_allData, w_successCount>>
                         /\ IF PauseDue(w_i, Len(w_urls))
                               THEN \E u \in RandomDraws :
                                       w_delays' = Append(w_delays, getRandomDelay(u))
                               ELSE w_delays' = w_delays
    /\ UNCHANGED <<w_argv, w_env, w_cookies, w_urls, w_browser, w_cookiesSet, w_exit, w_written>>
    /\ UNCHANGED <<gvars, dataDir, cvars>>

\* after the loop, allData.length > 0: saveToCSV writes the partial result set
SaveToCSV ==
    /\ w_pc = "loop"
    /\ w_i >= Len(w_urls)
    /\ ShouldSave(w_allData)
    /\ \E stamp \in Stamps :
          LET outputFile == DataFileName(w_argv.text, stamp)
          IN  /\ dataDir' = WriteFile(dataDir, outputFile,
                                      [k \in 1..Len(w_allData) |-> ToCsvRecord(w_allData[k])])
              /\ w_written' = outputFile
    /\ w_pc' = "closing"
    /\ UNCHANGED <<w_argv, w_env, w_cookies, w_urls, w_browser, w_cookiesSet, w_i,
                   w_allData, w_successCount, w_failCount, w_exit, w_fetched, w_last,
                   w_nullReturns, w_rowReturns, w_delays>>
    /\ UNCHANGED <<gvars, cvars>>

\* after the loop, allData.length > 0, and writeRecords throws: the file is
\* absent or was created without its records
SaveToCSVFails ==
    /\ w_pc = "loop"
    /\ w_i >= Len(w_urls)
    /\ ShouldSave(w_allData)
    /\ \E stamp \in Stamps :
          \/ dataDir' = dataDir
          \/ dataDir' = WriteFile(dataDir, DataFileName(w_argv.text, stamp), <<>>)
    /\ w_pc' = "closing_error"
    /\ UNCHANGED <<w_argv, w_env, w_cookies, w_urls, w_browser, w_cookiesSet, w_i,
                   w_allData, w_successCount, w_failCount, w_exit, w_fetched, w_last,
                   w_nullReturns, w_rowReturns, w_delays,
                   w_written>>
    /\ UNCHANGED <<gvars, cvars>>

\* after the loop, allData is empty: only "No data was scraped" is logged
NoDataScraped ==
    /\ w_pc = "loop"
    /\ w_i >= Len(w_urls)
    /\ ~ShouldSave(w_allData)
    /\ w_pc' = "closing"
    /\ UNCHANGED <<w_argv, w_env, w_cookies, w_urls, w_browser, w_cookiesSet, w_i,
                   w_allData, w_successCount, w_failCount, w_exit, w_fetched, w_last,
                   w_nullReturns, w_rowReturns, w_delays,
                   w_written>>
    /\ UNCHANGED <<gvars, dataDir, cvars>>

\* finally { await browser.close() }, then the end of main or the outer catch
CloseBrowser ==
    /\ w_pc \in {"closing", "closing_error"}
    /\ \E closed \in BOOLEAN :
          /\ w_browser' = IF closed THEN "closed" ELSE w_browser
          /\ w_exit' = ExitCode(ExitStatus(w_pc, closed))
    /\ w_pc' = "exited"
    /\ UNCHANGED <<w_argv, w_env, w_cookies, w_urls, w_cookiesSet, w_i, w_allData,
                   w_successCount, w_failCount, w_fetched, w_last,
                   w_nullReturns, w_rowReturns, w_delays, w_written>>
    /\ UNCHANGED <<gvars, dataDir, cvars>>

\* --------------------------------------- consolidate_data.js (part_001)
\* extractTimestamp(filename): the text matching
\* /(\d{4}-\d{2}-\d{2}T\d{2}-\d{2}-\d{2})/, i.e. the stamp up to its seconds,
\* or null when the name holds none
extractTimestamp(filename) ==
    IF "stamp" \in DOMAIN filename THEN [sec |-> filename.stamp.sec] ELSE Null

\* record[name] inside a template literal; a missing column prints "undefined"
Str(record, name) ==
    IF name \in DOMAIN record THEN record[name]
    ELSE <<"u", "n", "d", "e", "f", "i", "n", "e", "d">>
Truthy(record, name) == name \in DOMAIN record /\ record[name] # <<>>

\* the records of one file, each given _source_file and _source_timestamp
Annotate(data, file) ==
    [k \in 1..Len(data) |->
        [rec |-> data[k], _source_file |-> file, _source_timestamp |-> extractTimestamp(file)]]

\* const uniqueId = record.UniqueID || `${record.Rank}-${record.Domain}`
RecordKeyRankOnly(rec) == Str(rec, "Rank")

RecordKey(rec) ==
    IF Truthy(rec, "UniqueID") THEN rec["UniqueID"]
    ELSE Str(rec, "Rank") \o <<"-">> \o Str(rec, "Domain")

IsNewerLastWins(record, existing) == TRUE

IsNewerOrSame(record, existing) ==
    /\ record._source_timestamp # Null
    /\ \/ existing._source_timestamp = Null
       \/ record._source_timestamp.sec >= existing._source_timestamp.sec
\* record._source_timestamp && (!existing._source_timestamp ||
\*                              record._source_timestamp > existing._source_timestamp)
IsNewer(record, existing) ==
    /\ record._source_timestamp # Null
    /\ \/ existing._source_timestamp = Null
       \/ record._source_timestamp.sec > existing._source_timestamp.sec

\* the position of key in the Map (entries in insertion order), 0 when absent
MapIndex(map, key) ==
    IF \E k \in 1..Len(map) : map[k].key = key
       THEN CHOOSE k \in 1..Len(map) : map[k].key = key
       ELSE 0

\* the forEach callback of deduplicateData applied to one record
MapStep(map, record) ==
    LET uniqueId == RecordKey(record.rec)
        at == MapIndex(map, uniqueId)
    IN  IF at = 0 THEN Append(map, [key |-> uniqueId, value |-> record])
        ELSE IF IsNewer(record, map[at].value)
                THEN [map EXCEPT ![at] = [key |-> uniqueId, value |-> record]]
                ELSE map

RECURSIVE UniqueMap(_, _)
UniqueMap(data, n) == IF n = 0 THEN <<>> ELSE MapStep(UniqueMap(data, n - 1), data[n])

\* deduplicateData(data): Array.from(uniqueMap.values())
deduplicateData(data) ==
    LET map == UniqueMap(data, Len(data)) IN [k \in 1..Len(map) |-> map[k].value]

\* consolidate_data.js saveToCSV: the header is every column seen; a record
\* lacking a column gets an empty field
CsvHeader(records) == UNION {DOMAIN records[k] : k \in 1..Len(records)}
WriteRecords(records) ==
    [k \in 1..Len(records) |->
        [h \in CsvHeader(records) |-> IF h \in DOMAIN records[k] THEN records[k][h] ELSE <<>>]]

\* main's "Remove metadata fields before saving"
StripMetadata(deduplicated) == [k \in 1..Len(deduplicated) |-> deduplicated[k].rec]

RECURSIVE Perms(_)
Perms(S) ==
    IF S = {} THEN {<<>>}
    ELSE UNION {{<<x>> \o p : p \in Perms(S \ {x})} : x \in S}

\* master_data.csv (OUTPUT_FILE)
MasterName == [prefix |-> "master_data", chunk |-> <<>>]

ListedFilesWithMaster(dir, master) ==
    DOMAIN dir \cup (IF master = NoFile THEN {} ELSE {MasterName})
\* getDataFiles(): the .csv files of DATA_DIR; OUTPUT_FILE lies outside it
ListedFiles(dir, master) == DOMAIN dir

\* what readCsvFile(file) resolves to
FileRecords(dir, master, file) == IF file = MasterName THEN master.records ELSE dir[file]

\* getDataFiles() resolves, in the order readdir gives; main returns at once
\* when there is no file
GetDataFiles ==
    /\ c_pc = "start"
    /\ \E files \in Perms(ListedFiles(dataDir, masterFile)) :
          /\ c_files' = files
          /\ c_pc' = IF Len(files) = 0 THEN "no_files" ELSE "reading"
    /\ c_k' = 0
    /\ c_allData' = <<>>
    /\ UNCHANGED <<c_report, c_prev, masterFile>>
    /\ UNCHANGED <<gvars, wvars, dataDir>>

ConsExitStrict ==
    IF c_pc = "done" THEN ExitCode(0)
    ELSE IF c_pc \in {"no_files", "caught", "crashed"} THEN ExitCode(1)
    ELSE Undefined

\* the status the consolidation process ends with: main returns or its catch
\* logs the error, nothing calls process.exit, so node ends with status 0
ConsExit ==
    IF c_pc \in {"done", "no_files", "caught"} THEN ExitCode(0)
    ELSE IF c_pc = "crashed" THEN ExitCode(1)
    ELSE Undefined

\* the process ends: its local variables are gone
ProcessEnds == c_files' = <<>> /\ c_k' = 0 /\ c_allData' = <<>>

\* getDataFiles() rejects (readdir fails); main's catch logs the error
GetDataFilesFails ==
    /\ c_pc = "start"
    /\ c_pc' = "caught"
    /\ ProcessEnds
    /\ UNCHANGED <<c_report, c_prev, masterFile>>
    /\ UNCHANGED <<gvars, wvars, dataDir>>

\* one iteration of main's for...of loop: read, annotate, append
ReadCsvFile ==
    /\ c_pc = "reading"
    /\ c_k < Len(c_files)
    /\ LET file == c_files[c_k + 1]
       IN  c_allData' = c_allData \o Annotate(FileRecords(dataDir, masterFile, file), file)
    /\ c_k' = c_k + 1
    /\ UNCHANGED <<c_pc, c_files, c_report, c_prev, masterFile>>
    /\ UNCHANGED <<gvars, wvars, dataDir>>

\* readCsvFile fails. An error of the csv parser rejects the promise: the
\* await throws out of the loop into main's catch. An error of the file stream
\* itself (file gone, not readable) has no listener, since .on('error') is
\* attached to what pipe() returns: node ends the process on the spot.
ReadCsvFileFails ==
    /\ c_pc = "reading"
    /\ c_k < Len(c_files)
    /\ c_pc' \in {"caught", "crashed"}
    /\ ProcessEnds
    /\ UNCHANGED <<c_report, c_prev, masterFile>>
    /\ UNCHANGED <<gvars, wvars, dataDir>>

\* after the loop: deduplicate, strip the metadata, save, log the counts
Consolidate ==
    /\ c_pc = "reading"
    /\ c_k >= Len(c_files)
    /\ LET deduplicated == deduplicateData(c_allData)
       IN  /\ masterFile' = [records |-> WriteRecords(StripMetadata(deduplicated))]
           /\ c_report' = [original |-> Len(c_allData), final |-> Len(deduplicated),
                           removed |-> Len(c_allData) - Len(deduplicated)]
    /\ c_pc' = "done"
    /\ UNCHANGED <<c_files, c_k, c_allData, c_prev>>
    /\ UNCHANGED <<gvars, wvars, dataDir>>

\* after the loop, but writeRecords throws: master_data.csv is untouched or
\* left without records, and nothing is reported
ConsolidateSaveFails ==
    /\ c_pc = "reading"
    /\ c_k >= Len(c_files)
    /\ \/ masterFile' = masterFile
       \/ masterFile' = [records |-> <<>>]
    /\ c_pc' = "caught"
    /\ ProcessEnds
    /\ UNCHANGED <<c_report, c_prev>>
    /\ UNCHANGED <<gvars, wvars, dataDir>>

\* the script is started again over the same data/ (any number of times);
\* nothing of the finished process survives except the files
RunAgain ==
    /\ c_pc \in {"done", "caught", "no_files", "crashed"}
    /\ c_prev' = IF c_pc = "done"
                    THEN [files |-> c_files, master |-> masterFile, report |-> c_report]
                    ELSE c_prev
    /\ c_pc' = "start"
    /\ c_files' = <<>>
    /\ c_k' = 0
    /\ c_allData' = <<>>
    /\ c_report' = Undefined
    /\ UNCHANGED masterFile
    /\ UNCHANGED <<gvars, wvars, dataDir>>

ChunkLines(k) == [p \in 1..k |-> Url(p)]
\* chunks/ as the worker finds it: empty, written by the generator, or holding a
\* file placed under the name the worker looks for
WorkerChunkDirs ==
    { <<>>, ChunkFileName(1) :> ChunkLines(MaxUrls) }
    \cup { ChunkFilePath(<<"1">>) :> lines :
             lines \in {<<>>, <<BlankLine>>, <<Url(1), BlankLine>>, ChunkLines(MaxUrls)} }

\* data/ before the run: empty, or holding the output of an earlier attempt
EarlierPartial ==
    DataFileName(<<"1">>, [sec |-> 1, ms |-> 100]) :> <<ToCsvRecord(ExtractRow(RowFull, 0, Url(1)))>>

GenIdle ==
    /\ TOTAL_PAGES = 0
    /\ CHUNK_SIZE = 0
    /\ g_pc = "idle"
    /\ g_urls = <<>>
    /\ g_chunks = <<>>
    /\ g_i = 0
    /\ manifest = NoFile

WorkerIdle ==
    /\ w_argv = Undefined
    /\ w_env = Undefined
    /\ w_pc = "idle"
    /\ w_cookies = Undefined
    /\ w_urls = <<>>
    /\ w_browser = "none"
    /\ w_cookiesSet = <<>>
    /\ w_i = 0
    /\ w_allData = <<>>
    /\ w_successCount = 0
    /\ w_failCount = 0
    /\ w_exit = Undefined
    /\ w_fetched = <<>>
    /\ w_last = Undefined
    /\ w_nullReturns = 0
    /\ w_rowReturns = 0
    /\ w_delays = <<>>
    /\ w_written = NoFile

ConsIdle ==
    /\ c_pc = "idle"
    /\ c_files = <<>>
    /\ c_k = 0
    /\ c_allData = <<>>
    /\ c_report = Undefined
    /\ c_prev = Undefined
    /\ masterFile = NoFile

WorkerInit ==
    /\ GenIdle
    /\ chunkDir \in WorkerChunkDirs
    /\ dataDir \in {<<>>, EarlierPartial}
    /\ w_argv \in {Undefined, Argv(<<"1">>), Argv(<<"0", "0", "0", "1">>)}
    /\ w_env \in SessionInputs
    /\ w_pc = "start"
    /\ w_cookies = Undefined
    /\ w_urls = <<>>
    /\ w_browser = "none"
    /\ w_cookiesSet = <<>>
    /\ w_i = 0
    /\ w_allData = <<>>
    /\ w_successCount = 0
    /\ w_failCount = 0
    /\ w_exit = Undefined
    /\ w_fetched = <<>>
    /\ w_last = Undefined
    /\ w_nullReturns = 0
    /\ w_rowReturns = 0
    /\ w_delays = <<>>
    /\ w_written = NoFile
    /\ ConsIdle

WorkerNext ==
    \/ CheckArgs
    \/ LoadConfiguration
    \/ SetupBrowser
    \/ ScrapeNext
    \/ SaveToCSV
    \/ SaveToCSVFails
    \/ NoDataScraped
    \/ CloseBrowser

WorkerSpec == WorkerInit /\ [][WorkerNext]_vars

\* ---- data/ as the consolidator finds it
RowOld ==
    <<Cell(<<"5">>, Null), Cell(<<"c">>, Null), Cell(<<"9">>, Null),
      Cell(<<"x">>, Null), Cell(<<"o", "l", "d">>, Null), Cell(<<"d">>, Null)>>
RowNew ==
    <<Cell(<<"5">>, Null), Cell(<<"c">>, Null), Cell(<<"9">>, Null),
      Cell(<<"x">>, Null), Cell(<<"n", "e", "w">>, Null), Cell(<<"d">>, Null)>>

\* what a worker writes for the rows extracted from one page
Records(table, url) ==
    LET rows == ExtractTable(table, url) IN [k \in 1..Len(rows) |-> ToCsvRecord(rows[k])]

PartialContents ==
    { <<>>, Records(<<RowOld>>, Url(1)), Records(<<RowNew>>, Url(1)),
      Records(<<RowNew, RowFull, RowOld>>, Url(2)), Records(<<RowSpaced>>, Url(2)),
      Records(<<RowHyphen>>, Url(2)) }

\* a .csv file whose name holds no timestamp
UnstampedCsv == [prefix |-> "export", chunk |-> <<>>]
PartialNames ==
    {DataFileName(<<"1">>, s) : s \in Stamps} \cup {UnstampedCsv}

DataDirs ==
    UNION { [names -> PartialContents] :
              names \in {n \in SUBSET PartialNames : Cardinality(n) <= MaxFiles} }

ConsInit ==
    /\ GenIdle
    /\ chunkDir = <<>>
    /\ WorkerIdle
    /\ dataDir \in DataDirs
    /\ c_pc = "start"
    /\ c_files = <<>>
    /\ c_k = 0
    /\ c_allData = <<>>
    /\ c_report = Undefined
    /\ c_prev = Undefined
    /\ masterFile \in {NoFile, [records |-> Records(<<RowFull>>, Url(1))]}

ConsNext ==
    \/ GetDataFiles
    \/ GetDataFilesFails
    \/ ReadCsvFile
    \/ ReadCsvFileFails
    \/ Consolidate
    \/ ConsolidateSaveFails
    \/ RunAgain

ConsSpec == ConsInit /\ [][ConsNext]_vars

GenInit ==
    /\ TOTAL_PAGES \in -1..MaxPages
    /\ CHUNK_SIZE \in -1..MaxQuota
    /\ g_pc = "start"
    /\ g_urls = <<>>
    /\ g_chunks = <<>>
    /\ g_i = 0
    /\ chunkDir \in {<<>>, [n \in {StaleChunkFile} |-> <<Url(1)>>]}
    /\ manifest = NoFile
    /\ WorkerIdle
    /\ dataDir = <<>>
    /\ ConsIdle

GenNext ==
    \/ GenerateUrlList
    \/ ChunkStep
    \/ ChunkExhaust
    \/ ChunkReturn
    \/ SaveChunks
    \/ SaveChunksError

GenSpec == GenInit /\ [][GenNext]_vars

\* ====================================================================== claims
\* ---------------------------------------------------------------- url_generator

GenValid == TOTAL_PAGES >= 1 /\ CHUNK_SIZE >= 1
ChunkingReturned == g_pc \in {"chunked", "done", "caught"}

\* C1: for totalPages >= 1 and quota >= 1 the chunks chunkUrls returns have
\* lengths summing to totalPages, every chunk but the last has exactly quota
\* URLs, the last has totalPages mod quota (quota when that is 0), URL p sits at
\* position (p-1) mod quota of chunk floor((p-1)/quota)+1, and the chunks
\* concatenated in order are the URLs 1..totalPages in order.
C1_PartitionShape ==
    (GenValid /\ ChunkingReturned) =>
        /\ SumLen(g_chunks) = TOTAL_PAGES
        /\ Len(g_chunks) >= 1
        /\ \A k \in 1..(Len(g_chunks) - 1) : Len(g_chunks[k]) = CHUNK_SIZE
        /\ Len(g_chunks[Len(g_chunks)]) =
              (IF TOTAL_PAGES % CHUNK_SIZE = 0 THEN CHUNK_SIZE ELSE TOTAL_PAGES % CHUNK_SIZE)
        /\ \A p \in 1..TOTAL_PAGES :
              /\ ((p - 1) \div CHUNK_SIZE) + 1 <= Len(g_chunks)
              /\ ((p - 1) % CHUNK_SIZE) + 1 <= Len(g_chunks[((p - 1) \div CHUNK_SIZE) + 1])
              /\ g_chunks[((p - 1) \div CHUNK_SIZE) + 1][((p - 1) % CHUNK_SIZE) + 1] = Url(p)
        /\ Flatten(g_chunks) = [p \in 1..TOTAL_PAGES |-> Url(p)]

\* C1 witness: a finished generation with a short last chunk after full ones
C1_Witness ==
    /\ g_pc = "done"
    /\ TOTAL_PAGES = MaxPages
    /\ CHUNK_SIZE > 1
    /\ TOTAL_PAGES % CHUNK_SIZE # 0
    /\ Len(g_chunks) > 1

\* C2: with totalPages < 1 or quota < 1 partitioning fails (InvalidConfiguration):
\* chunkUrls never returns normally, the run never completes as a success, and
\* no chunk and no chunk file is produced.
C2_InvalidConfigurationFails ==
    (~GenValid) =>
        /\ g_pc \notin {"chunked", "done", "out_of_memory"}
        /\ g_chunks = <<>>
        /\ \A name \in DOMAIN chunkDir : name = StaleChunkFile

\* ----------------------------------------------------------------- consolidator

ConsDone == c_pc = "done"
MasterRecords == masterFile.records
Stamped(file) == "stamp" \in DOMAIN file
\* creation order of two partials, by the full stamp written into their names
Earlier(s1, s2) == s1.sec < s2.sec \/ (s1.sec = s2.sec /\ s1.ms < s2.ms)

UniqueIdsOf(records) == {records[k]["Unique_ID"] : k \in 1..Len(records)}
RowsWith(records, u) == {records[k] : k \in {j \in 1..Len(records) : records[j]["Unique_ID"] = u}}
InputUniqueIds == UNION {UniqueIdsOf(dataDir[f]) : f \in DOMAIN dataDir}
FilesWith(u) == {f \in DOMAIN dataDir : u \in UniqueIdsOf(dataDir[f])}

RECURSIVE TotalRows(_, _)
TotalRows(dir, names) ==
    IF names = {} THEN 0
    ELSE LET n == CHOOSE x \in names : TRUE IN Len(dir[n]) + TotalRows(dir, names \ {n})

\* C3: when a uniqueId occurs in several partials and one of them was stamped
\* strictly later than every other one holding it, the consolidated output
\* carries that partial's row for the uniqueId, whatever the read order.
C3_LaterPartialWins ==
    ConsDone =>
        \A f2 \in DOMAIN dataDir :
            \A u \in UniqueIdsOf(dataDir[f2]) :
                ( /\ Stamped(f2)
                  /\ FilesWith(u) # {f2}
                  /\ Cardinality(RowsWith(dataDir[f2], u)) = 1
                  /\ \A f1 \in FilesWith(u) \ {f2} :
                        Stamped(f1) /\ Earlier(f1.stamp, f2.stamp) )
                => RowsWith(dataDir[f2], u) \subseteq RowsWith(MasterRecords, u)

\* the rows of one group of the fold, by position in allData
GroupKeys == {RecordKey(c_allData[k].rec) : k \in 1..Len(c_allData)}
GroupIdx(key) == {k \in 1..Len(c_allData) : RecordKey(c_allData[k].rec) = key}
TimestampsTie(key) ==
    \A j, k \in GroupIdx(key) :
        c_allData[j]._source_timestamp = c_allData[k]._source_timestamp
FirstOf(S) == CHOOSE x \in S : \A y \in S : x <= y
LastOf(S) == CHOOSE x \in S : \A y \in S : x >= y
OutputFor(key) ==
    {MasterRecords[k] : k \in {j \in 1..Len(MasterRecords) : RecordKey(MasterRecords[j]) = key}}

\* C4 as stated: when the provenance timestamps of a uniqueId group are all
\* absent or all equal, the row encountered last in the fold is retained.
C4_TieKeepsLast ==
    ConsDone =>
        \A key \in GroupKeys :
            TimestampsTie(key) => OutputFor(key) = {c_allData[LastOf(GroupIdx(key))].rec}

\* C4 amended: when the provenance timestamps of a uniqueId group are all
\* absent or all equal, the row encountered first in the fold is retained.
C4_TieKeepsFirst ==
    ConsDone =>
        \A key \in GroupKeys :
            TimestampsTie(key) => OutputFor(key) = {c_allData[FirstOf(GroupIdx(key))].rec}

\* C4 witness: a finished run with a tied group of two different rows, the
\* first of which is the one in the output
C4_Witness ==
    /\ ConsDone
    /\ \E key \in GroupKeys :
          /\ TimestampsTie(key)
          /\ c_allData[FirstOf(GroupIdx(key))].rec # c_allData[LastOf(GroupIdx(key))].rec
          /\ OutputFor(key) = {c_allData[FirstOf(GroupIdx(key))].rec}

\* C5: the canonical dataset holds exactly one row per Unique_ID occurring in
\* the input partials: no two output rows share a Unique_ID and no input
\* Unique_ID is missing.
C5_OneRowPerUniqueId ==
    ConsDone =>
        /\ \A j, k \in 1..Len(MasterRecords) :
              j # k => MasterRecords[j]["Unique_ID"] # MasterRecords[k]["Unique_ID"]
        /\ UniqueIdsOf(MasterRecords) = InputUniqueIds

\* C6: consolidation is idempotent and carries no state over: a completed run
\* outputs rows for exactly the uniqueIds of the partials in data/, the same
\* uniqueIds as the completed run before it, and, when the files are read in
\* the same order, the very same rows and counts.
C6_Idempotent ==
    ConsDone =>
        /\ UniqueIdsOf(MasterRecords) = InputUniqueIds
        /\ c_prev # Undefined =>
              /\ UniqueIdsOf(MasterRecords) = UniqueIdsOf(c_prev.master.records)
              /\ c_files = c_prev.files =>
                    (masterFile = c_prev.master /\ c_report = c_prev.report)

\* C6 witness: a second completed run over several files with duplicates,
\* read in the same order as the first
C6_Witness ==
    /\ ConsDone
    /\ c_prev # Undefined
    /\ c_files = c_prev.files
    /\ Len(c_files) > 1
    /\ c_report.removed > 0
    /\ masterFile = c_prev.master

NoSharedUniqueId == Cardinality(InputUniqueIds) = TotalRows(dataDir, DOMAIN dataDir)

\* C7: the reported counts are the input rows, the output rows and their
\* difference; when no two input rows share a uniqueId every input row is
\* output and zero duplicates are reported.
C7_DuplicatesReport ==
    ConsDone =>
        /\ c_report.original = TotalRows(dataDir, DOMAIN dataDir)
        /\ c_report.final = Len(MasterRecords)
        /\ c_report.removed = c_report.original - c_report.final
        /\ NoSharedUniqueId =>
              /\ c_report.removed = 0
              /\ \A f \in DOMAIN dataDir :
                    \A k \in 1..Len(dataDir[f]) :
                        \E j \in 1..Len(MasterRecords) : MasterRecords[j] = dataDir[f][k]

\* C7 witness: a completed run over two non-empty partials with no shared
\* uniqueId, reporting zero duplicates
C7_Witness ==
    /\ ConsDone
    /\ Cardinality(DOMAIN dataDir) = MaxFiles
    /\ \A f \in DOMAIN dataDir : Len(dataDir[f]) > 0
    /\ NoSharedUniqueId
    /\ c_report.removed = 0
    /\ c_report.final = c_report.original

\* ----------------------------------------------------------------- chunk runner

LoopEntered == w_fetched # <<>>
LoopLeft == w_pc \in {"closing", "closing_error", "exited"}

\* the ways a fetch can fail, read off the driver's answer
FetchFails(r, url) ==
    \/ r.throwsAt # "none"
    \/ IsChallenge(r.title, ResolvedUrl(r, url))
    \/ IsLogin(r.title, ResolvedUrl(r, url))
    \/ r.table = Null

\* C8: a per-page fetch failure of any kind never raises an exception out of
\* the chunk runner: scrapePage returns null for it, the URL is counted in
\* failCount, the loop moves on to the next URL, and the loop is only ever left
\* after every URL of the chunk has been fetched.
C8_FetchFailureContained ==
    /\ w_last # Undefined =>
          /\ w_last.data # Thrown
          /\ FetchFails(w_last.response, w_last.url) => w_last.data = Null
          /\ w_i = Len(w_fetched)
    /\ w_failCount >= w_nullReturns
    /\ w_successCount + w_failCount = Len(w_fetched)
    /\ (LoopEntered /\ LoopLeft) => w_fetched = w_urls
    /\ w_pc = "closing_error" => ShouldSave(w_allData)

\* C8 witness: a run that ended with status 0 although its first URL met a
\* challenge page and its last URL a navigation error
C8_Witness ==
    /\ w_pc = "exited"
    /\ w_exit = ExitCode(0)
    /\ Len(w_fetched) = MaxUrls
    /\ w_last.response.throwsAt = "goto"
    /\ w_nullReturns = MaxUrls
    /\ w_failCount = MaxUrls

RunCompleted == LoopEntered /\ LoopLeft
DataDirUntouched == dataDir \in {<<>>, EarlierPartial}

NonBlank(text) == \E k \in 1..Len(text) : ~IsWs(text[k])
CellNonBlank(cells, k) == k <= Len(cells) /\ NonBlank(cells[k].text)
\* the table rows with a domain or an IP address in their markup
DataRows(table) ==
    {k \in 1..Len(table) : CellNonBlank(table[k], 2) \/ CellNonBlank(table[k], 3)}

\* C10: no row with both domain and ipAddress empty is returned by extraction,
\* accumulated or persisted, and every table row with a domain or an IP address
\* (in particular an empty domain with an IP address) is returned.
C10_EmptyRowsDropped ==
    /\ \A k \in 1..Len(w_allData) :
          w_allData[k].domain # <<>> \/ w_allData[k].ipAddress # <<>>
    /\ \A f \in DOMAIN dataDir :
          \A k \in 1..Len(dataDir[f]) :
              dataDir[f][k]["Domain"] # <<>> \/ dataDir[f][k]["IP_Address"] # <<>>
    /\ (w_last # Undefined /\ w_last.data \notin {Null, Thrown}) =>
          LET rows == w_last.data.rows
              table == w_last.response.table.rows
          IN  /\ \A k \in 1..Len(rows) : rows[k].domain # <<>> \/ rows[k].ipAddress # <<>>
              /\ Len(rows) = Cardinality(DataRows(table))
              /\ \A t \in DataRows(table) :
                    \E k \in 1..Len(rows) :
                        /\ rows[k].domain = Trim(table[t][2].text)
                        /\ rows[k].ipAddress = CellText(table[t], 3)
                        /\ rows[k].rank = ExtractRow(table[t], t - 1, w_last.url).rank

\* C10 witness: a page whose table has a row with an IP address and no domain
\* next to rows with neither; only the former was returned and persisted
C10_Witness ==
    /\ w_pc = "exited"
    /\ LoopEntered
    /\ w_last.data \notin {Null, Thrown}
    /\ w_last.response.table = Table(<<RowIpOnly, RowBlank, RowNoCells>>)
    /\ Len(w_last.data.rows) = 1
    /\ w_last.data.rows[1].domain = <<>>
    /\ w_last.data.rows[1].ipAddress # <<>>
    /\ w_written \in DOMAIN dataDir
    /\ \E k \in 1..Len(dataDir[w_written]) : dataDir[w_written][k]["Domain"] = <<>>

\* ---- uniqueId

\* the rows the last fetch returned, when it returned rows
LastRows == IF w_last = Undefined \/ w_last.data \in {Null, Thrown} THEN <<>> ELSE w_last.data.rows

HasWs(text) == \E k \in 1..Len(text) : IsWs(text[k])
\* the positions of a text that survive when whitespace runs are collapsed:
\* every other character, and the first character of every whitespace run
RunHeads(text) == {k \in 1..Len(text) : ~IsWs(text[k]) \/ k = 1 \/ ~IsWs(text[k - 1])}
\* the k-th smallest element of a set of numbers
Nth(S, k) == CHOOSE x \in S : Cardinality({y \in S : y <= x}) = k
Hyphenated(text) ==
    [k \in 1..Cardinality(RunHeads(text)) |->
        IF IsWs(text[Nth(RunHeads(text), k)]) THEN "-" ELSE text[Nth(RunHeads(text), k)]]

UniqueIdWellFormed(row) ==
    /\ row.uniqueId = Hyphenated(row.rank \o <<"-">> \o row.domain)
    /\ ~HasWs(row.uniqueId)

\* C11: the uniqueId of every extracted row is the row's own rank, a hyphen and
\* the row's own domain with every run of whitespace replaced by one hyphen,
\* and holds no whitespace; so it is for the rows accumulated and persisted.
C11_UniqueIdFromRankAndDomain ==
    /\ \A k \in 1..Len(LastRows) : UniqueIdWellFormed(LastRows[k])
    /\ \A k \in 1..Len(w_allData) : UniqueIdWellFormed(w_allData[k])
    /\ \A f \in DOMAIN dataDir :
          \A k \in 1..Len(dataDir[f]) :
              /\ dataDir[f][k]["Unique_ID"] =
                    Hyphenated(dataDir[f][k]["Rank"] \o <<"-">> \o dataDir[f][k]["Domain"])
              /\ ~HasWs(dataDir[f][k]["Unique_ID"])

\* C11 witness: a persisted row whose rank and domain hold whitespace, one run
\* of it two characters long, next to a row whose rank is the "row-N" fallback
C11_Witness ==
    /\ w_pc = "exited"
    /\ w_written \in DOMAIN dataDir
    /\ \E k \in 1..Len(LastRows) :
          /\ LastRows[k].rank = <<"1", " ", "2">>
          /\ LastRows[k].domain = <<"a", " ", "\n", "b">>
          /\ LastRows[k].uniqueId = <<"1", "-", "2", "-", "a", "-", "b">>
    /\ \E k \in 1..Len(LastRows) :
          /\ LastRows[k].rank = <<"r", "o", "w", "-", "2">>
          /\ LastRows[k].uniqueId = <<"r", "o", "w", "-", "2", "-", "b">>

\* ---- challenge and login detection

Fetched == w_last # Undefined
Navigated == Fetched /\ w_last.response.throwsAt \notin {"goto", "mouse"}
LastPageUrl == ResolvedUrl(w_last.response, w_last.url)
ChallengeMarkers == {"Verification", "CAPTCHA", "Bot", "Security Check"}
\* the page the driver landed on, read off the answer itself
LooksLikeChallenge ==
    \/ \E k \in 1..Len(w_last.response.title) : w_last.response.title[k] \in ChallengeMarkers
    \/ LastPageUrl.base = "verify"
LooksLikeLogin ==
    \/ \E k \in 1..Len(w_last.response.title) : w_last.response.title[k] \in {"Login", "Sign In"}
    \/ LastPageUrl.base = "login"
StepTaken(step) == \E k \in 1..Len(w_last.steps) : w_last.steps[k] = step

\* C12: after navigation, a page whose title holds a challenge marker or whose
\* resolved URL is the verification path, or that looks like a login page,
\* makes the fetch return a failure without waiting for the table and without
\* running extraction; a page that is both is reported as a challenge.
C12_DetectionShortCircuits ==
    (Navigated /\ (LooksLikeChallenge \/ LooksLikeLogin)) =>
        /\ w_last.data = Null
        /\ ~StepTaken("waitForSelector")
        /\ ~StepTaken("evaluate")
        /\ w_last.steps[Len(w_last.steps)] = "url"
        /\ w_last.message = (IF LooksLikeChallenge THEN "Human verification required"
                                                   ELSE "Session expired or not logged in")

\* C12 witness: the last fetch landed on a page that is both a challenge and a
\* login page, although a data table was there to extract
C12_Witness ==
    /\ Navigated
    /\ LooksLikeChallenge
    /\ LooksLikeLogin
    /\ w_last.message = "Human verification required"
    /\ w_failCount = Len(w_fetched)

\* ---- setup failures

ArgGiven == w_argv # Undefined
SessionMissing == w_env = Undefined
ChunkFileOf == ChunkFilePath(w_argv.text)
ChunkFileMissing == ArgGiven /\ ChunkFileOf \notin DOMAIN chunkDir
ChunkFileHasNoUrl ==
    /\ ArgGiven
    /\ ChunkFileOf \in DOMAIN chunkDir
    /\ \A k \in 1..Len(chunkDir[ChunkFileOf]) : chunkDir[ChunkFileOf][k] = BlankLine
NoNetworkActivity ==
    /\ w_browser = "none"
    /\ w_cookiesSet = <<>>
    /\ w_fetched = <<>>
    /\ w_last = Undefined
Exited == w_pc = "exited"

\* C13: with the session variable missing, the chunk file missing or the chunk
\* file holding no URL, the entry point never launches a browser and never
\* navigates, and when it exits its status is not zero.
C13_SetupFailureAborts ==
    (ArgGiven /\ (SessionMissing \/ ChunkFileMissing \/ ChunkFileHasNoUrl)) =>
        /\ NoNetworkActivity
        /\ w_pc \in {"start", "loading", "exited"}
        /\ Exited => (w_exit # Undefined /\ w_exit.code # 0)
        /\ w_written = NoFile

\* C13 witness: a run given a good session and a chunk file of blank lines
\* only, ended with status 1 and no browser
C13_Witness ==
    /\ Exited
    /\ w_exit = ExitCode(1)
    /\ ArgGiven
    /\ w_env = Env("json-cookies")
    /\ ChunkFileHasNoUrl
    /\ Len(chunkDir[ChunkFileOf]) > 0
    /\ NoNetworkActivity

\* ---- exit status

\* the partial result set was due but is not there: saveToCSV threw
SaveFailed == ShouldSave(w_allData) /\ w_written = NoFile
CloseFailed == w_browser # "closed"

SessionIsSequence == w_env \in {Env("json-empty-array"), Env("json-cookies")}

\* C15: a session input that does not decode to a sequence of credential
\* tokens (missing, undecodable, or JSON that is not a sequence) makes the run
\* fail before any fetch: no URL is ever fetched, and the run ends non-zero.
C15_InvalidSessionFails ==
    (ArgGiven /\ ~SessionIsSequence) =>
        /\ w_fetched = <<>>
        /\ w_pc \notin {"loop", "closing", "closing_error"}
        /\ Exited => (w_exit # Undefined /\ w_exit.code # 0)

\* ---- consolidation without input

NoPartials == DOMAIN dataDir = {}
ConsRunning == c_pc # "idle"
ConsEnded == c_pc \in {"done", "no_files", "caught", "crashed"}

\* C16: when consolidation finds no partial result set it reports that and
\* ends with status zero without reading or writing anything: master_data.csv,
\* present or not, is never changed, and no counts are reported.
C16_NoPartialsNoOutput ==
    /\ [](NoPartials =>
            /\ c_pc \notin {"reading", "done"}
            /\ c_report = Undefined
            /\ c_allData = <<>>
            /\ ConsEnded => ConsExit = ExitCode(0))
    /\ [][NoPartials => masterFile' = masterFile]_vars

\* C16 witness: a run that found data/ empty and ended, an earlier
\* master_data.csv still in place
C16_Witness ==
    /\ NoPartials
    /\ c_pc = "no_files"
    /\ c_files = <<>>
    /\ masterFile # NoFile
    /\ Len(MasterRecords) > 0
    /\ ConsExit = ExitCode(0)

\* ---- success and failure counters

\* C17 as stated: at the end of a run over n URLs the success counter is the
\* number of fetches that returned a row sequence (empty ones included), the
\* failure counter the number that returned a failure, and they sum to n.
C17_CountersByReturnKind ==
    RunCompleted =>
        /\ w_successCount = w_rowReturns
        /\ w_failCount = w_nullReturns
        /\ w_successCount + w_failCount = Len(w_urls)

\* C17 amended: every fetch that returns a non-empty row sequence adds one to
\* the success counter and nothing to the failure counter; every fetch that
\* returns a failure or an empty row sequence adds one to the failure counter
\* and nothing to the success counter; at the end the counters sum to n.
C17_CountersByRowsCollected ==
    /\ [](/\ w_successCount + w_failCount = Len(w_fetched)
          /\ w_successCount <= w_rowReturns
          /\ w_failCount >= w_nullReturns
          /\ w_nullReturns + w_rowReturns = Len(w_fetched)
          /\ RunCompleted => w_successCount + w_failCount = Len(w_urls))
    /\ [][w_fetched' # w_fetched =>
            IF w_last'.data # Null /\ w_last'.data.rows # <<>>
               THEN w_successCount' = w_successCount + 1 /\ w_failCount' = w_failCount
               ELSE w_successCount' = w_successCount /\ w_failCount' = w_failCount + 1]_vars

\* C17 witness: a finished run whose first page gave rows and whose last page
\* gave an empty table: one success, one failure, no failure returned
C17_Witness ==
    /\ Exited
    /\ RunCompleted
    /\ Len(w_urls) = MaxUrls
    /\ w_last.response.table = Table(<<>>)
    /\ w_last.data # Null
    /\ w_nullReturns = 0
    /\ w_rowReturns = MaxUrls
    /\ w_failCount = 1
    /\ w_successCount = MaxUrls - 1

\* ---- sequential, one attempt per URL

\* C18: within a run the URLs of the chunk are fetched one at a time, in chunk
\* order, each exactly once: the fetches made so far are always the first URLs
\* of the chunk, each fetch is of the next URL, and the loop is left only when
\* all are fetched; a challenge or login page changes none of this.
C18_EachUrlOnceInOrder ==
    /\ [](/\ Len(w_fetched) <= Len(w_urls)
          /\ w_fetched = SubSeq(w_urls, 1, Len(w_fetched))
          /\ LoopEntered => w_i = Len(w_fetched)
          /\ (LoopEntered /\ LoopLeft) => w_fetched = w_urls)
    /\ [][w_fetched' # w_fetched =>
            /\ w_pc = "loop"
            /\ Len(w_fetched) < Len(w_urls)
            /\ w_fetched' = Append(w_fetched, w_urls[Len(w_fetched) + 1])
            /\ w_last'.url = w_urls[Len(w_fetched) + 1]
            /\ w_pc' = "loop"]_vars
    /\ [][(w_pc = "loop" /\ w_pc' # "loop") => w_fetched = w_urls]_vars

\* C18 witness: a finished run over the whole chunk, in order, that met a
\* login page on its last URL after failures on all the earlier ones
C18_Witness ==
    /\ Exited
    /\ w_fetched = [p \in 1..MaxUrls |-> Url(p)]
    /\ w_fetched = w_urls
    /\ w_last.message = "Session expired or not logged in"
    /\ w_failCount = MaxUrls

\* ---- applying the session

BundleOf(env) ==
    IF env = Env("json-cookies") THEN <<Cookie("sid"), Cookie("tok")>> ELSE <<>>

\* C19: page.setCookie is called at most once in a run, with the whole cookie
\* bundle, before the first navigation and never by a fetch; with an empty
\* bundle it is never called and the fetches go ahead all the same.
C19_SessionAppliedOnce ==
    /\ [](/\ Len(w_cookiesSet) <= 1
          /\ w_cookiesSet # <<>> =>
                (w_cookiesSet[1] = BundleOf(w_env) /\ BundleOf(w_env) # <<>>)
          /\ (LoopEntered /\ BundleOf(w_env) # <<>>) => w_cookiesSet = <<BundleOf(w_env)>>
          /\ BundleOf(w_env) = <<>> => w_cookiesSet = <<>>)
    /\ [][w_fetched' # w_fetched => w_cookiesSet' = w_cookiesSet]_vars
    /\ [][w_cookiesSet' # w_cookiesSet =>
            (w_pc = "setup" /\ w_fetched' = <<>> /\ w_cookiesSet = <<>>)]_vars

\* C19 witness: a finished run over the whole chunk, the two cookies set once
C19_Witness ==
    /\ Exited
    /\ w_exit = ExitCode(0)
    /\ Len(w_fetched) = MaxUrls
    /\ w_successCount = MaxUrls
    /\ w_cookiesSet = <<(<<Cookie("sid"), Cookie("tok")>>)>>

\* C19 witness, empty bundle: a run with no cookie at all that fetched its
\* chunk and ended with status 0
C19_EmptyBundleWitness ==
    /\ Exited
    /\ w_exit = ExitCode(0)
    /\ w_env = Env("json-empty-array")
    /\ Len(w_fetched) = MaxUrls
    /\ w_successCount > 0
    /\ w_cookiesSet = <<>>

\* ---- pacing

PausesAfter(fetches, n) == IF fetches < n THEN fetches ELSE n - 1

\* C20: a run over n URLs pauses exactly n-1 times, once after every fetch but
\* the last, whether that fetch succeeded or failed, and every pause is a whole
\* number of milliseconds from 3000 to 8000.
C20_PausesBetweenFetches ==
    /\ [](/\ \A k \in 1..Len(w_delays) : w_delays[k] \in 3000..8000
          /\ LoopEntered => Len(w_delays) = PausesAfter(Len(w_fetched), Len(w_urls))
          /\ RunCompleted => Len(w_delays) = Len(w_urls) - 1
          /\ ~LoopEntered => w_delays = <<>>)
    /\ [][w_fetched' # w_fetched =>
            IF Len(w_fetched') < Len(w_urls)
               THEN Len(w_delays') = Len(w_delays) + 1
               ELSE w_delays' = w_delays]_vars
    /\ [][w_delays' # w_delays => w_fetched' # w_fetched]_vars

\* C20 witness: a finished run in which every fetch failed and every pause
\* was the longest one
C20_Witness ==
    /\ Exited
    /\ Len(w_fetched) = MaxUrls
    /\ w_failCount = MaxUrls
    /\ Len(w_delays) = MaxUrls - 1
    /\ \A k \in 1..Len(w_delays) : w_delays[k] = 8000

\* ---- an unreadable partial

FilesLeftToRead == c_pc = "reading" /\ c_k < Len(c_files)

\* C21: a partial that cannot be read is skipped and the merge goes on: while
\* files are left to read, every step of the run moves on to the next file and
\* stays in the read loop, so the run ends only by writing the dataset.
C21_UnreadableSourceSkipped ==
    [][FilesLeftToRead => (c_pc' = "reading" /\ c_k' = c_k + 1 /\ c_files' = c_files)]_vars

\* ---- names of partial result sets

Untouched(f) == f \in DOMAIN dataDir' /\ dataDir'[f] = dataDir[f]

\* C22 as stated: a run writes its partial under a name no other invocation
\* used, so every file already in data/ is still there, unchanged, afterwards.
C22_NeverOverwrites ==
    [][dataDir' # dataDir =>
          /\ \A f \in DOMAIN dataDir : Untouched(f)
          /\ Cardinality(DOMAIN dataDir') = Cardinality(DOMAIN dataDir) + 1]_vars

\* C22 amended: a run writes to one file only, named by its chunk identifier
\* and its completion time to the millisecond; every file of another name
\* (another chunk identifier, or another millisecond) is left as it was, and
\* once its partial is written the run changes nothing in data/.
C22_WritesOnlyOwnName ==
    /\ [][dataDir' # dataDir =>
            \E stamp \in Stamps :
                /\ DOMAIN dataDir' = DOMAIN dataDir \cup {DataFileName(w_argv.text, stamp)}
                /\ \A f \in DOMAIN dataDir :
                      (f.chunk # w_argv.text \/ f.stamp # stamp) => Untouched(f)]_vars
    /\ [][w_written # NoFile => dataDir' = dataDir]_vars
    /\ [](w_written # NoFile =>
            /\ w_written \in DOMAIN dataDir
            /\ w_written.chunk = w_argv.text
            /\ w_written.stamp \in Stamps)

\* C22 witness: a run of chunk "0001" that finished in the very millisecond of
\* an earlier partial of chunk "1": two files side by side
C22_Witness ==
    /\ Exited
    /\ w_written # NoFile
    /\ w_written.chunk = <<"0", "0", "0", "1">>
    /\ w_written.stamp = [sec |-> 1, ms |-> 100]
    /\ Cardinality(DOMAIN dataDir) = 2
    /\ \A f \in DOMAIN dataDir : f.stamp = w_written.stamp
    /\ \A f \in DOMAIN dataDir : Len(dataDir[f]) > 0

\* ---- read order

\* how often a uniqueId occurs in one partial
Occurrences(f, u) == Cardinality({k \in 1..Len(dataDir[f]) : dataDir[f][k]["Unique_ID"] = u})
\* for every uniqueId, the rows carrying it have pairwise different provenance
\* timestamps (the _source_timestamp the consolidator gives them): no partial
\* holds the uniqueId twice and no two partials holding it have the same one
DistinctProvenance ==
    \A u \in InputUniqueIds :
        /\ \A f \in FilesWith(u) : Occurrences(f, u) = 1
        /\ \A f1, f2 \in FilesWith(u) :
              f1 # f2 => extractTimestamp(f1) # extractTimestamp(f2)
\* f2's rows replace or keep out f1's, whichever is read first
Beats(f2, f1) ==
    /\ Stamped(f2)
    /\ (~Stamped(f1) \/ f2.stamp.sec > f1.stamp.sec)
\* the rows no other partial beats, by the key of the fold
UnbeatenRows ==
    UNION { {dataDir[f][k] : k \in {j \in 1..Len(dataDir[f]) :
                ~\E f2 \in DOMAIN dataDir \ {f} :
                    /\ Beats(f2, f)
                    /\ \E j2 \in 1..Len(dataDir[f2]) :
                          RecordKey(dataDir[f2][j2]) = RecordKey(dataDir[f][j])}} :
            f \in DOMAIN dataDir }
RowSet(records) == {records[k] : k \in 1..Len(records)}

\* C23: when, for every uniqueId, the rows carrying it have pairwise different
\* provenance timestamps, the rows of the canonical dataset do not depend on
\* the order the partials are read in: they are the rows no other partial
\* beats, the same rows and counts as any completed run before over the same
\* partials (the order of the rows in the file follows the read order).
C23_ReadOrderIrrelevant ==
    (ConsDone /\ DistinctProvenance) =>
        /\ RowSet(MasterRecords) = UnbeatenRows
        /\ Len(MasterRecords) = Cardinality(UnbeatenRows)
        /\ c_prev # Undefined =>
              /\ RowSet(MasterRecords) = RowSet(c_prev.master.records)
              /\ c_report = c_prev.report

\* C23 witness: a second completed run that read two partials sharing a
\* uniqueId in the other order and kept the same rows
C23_Witness ==
    /\ ConsDone
    /\ DistinctProvenance
    /\ c_prev # Undefined
    /\ Len(c_files) = 2
    /\ c_files # c_prev.files
    /\ c_report.removed > 0
    /\ RowSet(MasterRecords) = RowSet(c_prev.master.records)

\* ---- generator, then chunk runner

\* `node worker_script.js <chunk_number>` once url_generator.js has finished:
\* the number is typed as in the usage example ("1") or as in the file name
\* ("0001"), with SESSION_DATA set
ChunkNumbers ==
    {NumToString(n) : n \in 1..MaxChunks} \cup {PadStart(NumToString(n), 4) : n \in 1..MaxChunks}
StartRunner ==
    /\ g_pc = "done"
    /\ w_pc = "idle"
    /\ w_argv' \in {Argv(text) : text \in ChunkNumbers}
    /\ w_env' \in {Env("json-cookies"), Env("json-empty-array")}
    /\ w_pc' = "start"
    /\ UNCHANGED <<w_cookies, w_urls, w_browser, w_cookiesSet, w_i, w_allData,
                   w_successCount, w_failCount, w_exit, w_fetched, w_last,
                   w_nullReturns, w_rowReturns, w_delays, w_written>>
    /\ UNCHANGED <<gvars, dataDir, cvars>>

\* the generator's run followed by the runner's start-up, up to the point
\* where its URLs are loaded
PipelineNext ==
    \/ GenNext
    \/ StartRunner
    \/ CheckArgs
    \/ LoadConfiguration

PipelineSpec == GenInit /\ [][PipelineNext]_vars

ConfigurationLoaded == w_pc \in {"setup", "exited"}

\* C24: for every chunk the generator wrote, the chunk runner started with the
\* chunk's 1-based sequence number (1, 2, ...) finds the generator's chunk file
\* and loads exactly that chunk's URLs, in order.
C24_RunnerFindsGeneratedChunk ==
    \A n \in 1..Len(g_chunks) :
        (g_pc = "done" /\ ConfigurationLoaded /\ w_argv = Argv(NumToString(n))) =>
            /\ w_pc = "setup"
            /\ w_urls = g_chunks[n]

\* ---- closing the browser

BrowserLaunched == w_browser # "none"

\* C25: once the browser is launched it is closed before the process exits.
\* Stated here for the runs that end before the URL loop (a failure while
\* configuring the page or applying the cookies), where browser.close() itself
\* cannot be what failed.
C25_BrowserClosedBeforeExit ==
    (Exited /\ BrowserLaunched /\ ~LoopEntered) => w_browser = "closed"

====
